---- MODULE Spec2Model ----
(***************************************************************************)
(* Model of the extraction / classification / scoring pipeline of app.py:  *)
(* load_qualis_data, process_all_html_files, calculate_points and the      *)
(* module-level driver that chains them.                                   *)
(*                                                                         *)
(* Text is a sequence of one-character strings, so that the regular        *)
(* expressions of process_all_html_files are computed character by         *)
(* character.  Python's None and pandas' NaN in a text column are the      *)
(* empty sequence None (no identifier and no extracted value is empty).    *)
(* Quality tiers are never taken apart, so they are plain strings, and a   *)
(* blank tier cell is the string "NaN".                                    *)
(* The columns Ano, WOS and Scopus of a record are left out: no step       *)
(* modelled here reads them.                                               *)
(***************************************************************************)
EXTENDS Integers, Sequences, FiniteSets, TLC

VARIABLES
    qualis_file,   \* data/qualis_final.xlsx: [kind, rows]
    fs,            \* folder name -> [isdir, files]; a file is [name, html, articles]
    pc,            \* position of the driver / of process_all_html_files
    qualis_df,     \* result of load_qualis_data: [columns, rows]
    errors,        \* the st.error messages shown so far
    folder_i,      \* index in folders of the folder being scanned
    html_files,    \* the .html files of the current folder
    file_i,        \* index in html_files of the file being processed
    articles,      \* the article blocks selected in the current file
    article_i,     \* index in articles of the block being processed
    all_articles,  \* the records appended so far
    articles_df,   \* result of process_all_html_files
    banco_final,   \* result of calculate_points
    cvuri_log,     \* history: the cvuri text each record of all_articles came from
    failed_files   \* history: <<categoria, name>> of every file whose processing raised

vars == <<qualis_file, fs, pc, qualis_df, errors, folder_i, html_files, file_i,
          articles, article_i, all_articles, articles_df, banco_final,
          cvuri_log, failed_files>>

----------------------------------------------------------------------------
(* Bounds of the model. *)

MaxRows == 2       \* rows of the reference table
MaxFiles == 2      \* files of the enumerated folder
MaxArticles == 2   \* article blocks of an enumerated file
MaxFrags == 2      \* key=value fragments of an enumerated cvuri text

----------------------------------------------------------------------------
(* Text. *)

None == <<>>

Alnum ==
    {"A","B","C","D","E","F","G","H","I","J","K","L","M","N","O","P","Q","R",
     "S","T","U","V","W","X","Y","Z",
     "a","b","c","d","e","f","g","h","i","j","k","l","m","n","o","p","q","r",
     "s","t","u","v","w","x","y","z",
     "0","1","2","3","4","5","6","7","8","9"}

SetMin(S) == CHOOSE m \in S : \A x \in S : m <= x

\* (?<=lit) at position i: the Len(lit) characters before i spell lit.
Lookbehind(text, lit, i) ==
    /\ i - Len(lit) >= 1
    /\ SubSeq(text, i - Len(lit), i - 1) = lit

issn_eq == <<"i","s","s","n","=">>
doi_eq == <<"d","o","i","=">>
titulo_eq == <<"t","i","t","u","l","o","=">>
nomePeriodico_eq == <<"n","o","m","e","P","e","r","i","o","d","i","c","o","=">>

\* re.search(r"(?<=issn=)([A-Za-z0-9]{4})([A-Za-z0-9]{4})", text): the
\* leftmost position where the pattern matches, as <<group(1), group(2)>>.
issn_match(text) ==
    LET starts == {i \in 1..Len(text) :
                      /\ Lookbehind(text, issn_eq, i)
                      /\ i + 7 <= Len(text)
                      /\ \A k \in i..(i + 7) : text[k] \in Alnum}
    IN  IF starts = {} THEN None
        ELSE LET i == SetMin(starts)
             IN  <<SubSeq(text, i, i + 3), SubSeq(text, i + 4, i + 7)>>

\* re.search(r"(?<=<lit>)[^&]+", text): leftmost match, greedy to the next "&"
\* or to the end of the text; group(0), or None.
value_match(text, lit) ==
    LET starts == {i \in 1..Len(text) :
                      Lookbehind(text, lit, i) /\ text[i] # "&"}
    IN  IF starts = {} THEN None
        ELSE LET i == SetMin(starts)
                 stops == {j \in i..Len(text) : text[j] = "&"}
                 e == IF stops = {} THEN Len(text) ELSE SetMin(stops) - 1
             IN  SubSeq(text, i, e)

NA == <<"N","/","A">>
TituloNaoEncontrado ==
    <<"T","i","t","u","l","o"," ","n","a","o"," ",
      "e","n","c","o","n","t","r","a","d","o">>
RevistaNaoEncontrada ==
    <<"R","e","v","i","s","t","a"," ","n","a","o"," ",
      "e","n","c","o","n","t","r","a","d","a">>

extract_issn(cvuri_text) ==
    LET m == issn_match(cvuri_text)
    IN  IF m # None THEN m[1] \o <<"-">> \o m[2] ELSE None

extract_doi(cvuri_text) ==
    LET m == value_match(cvuri_text, doi_eq)
    IN  IF m # None THEN m ELSE NA

extract_titulo(cvuri_text) ==
    LET m == value_match(cvuri_text, titulo_eq)
    IN  IF m # None THEN m ELSE TituloNaoEncontrado

extract_revista(cvuri_text) ==
    LET m == value_match(cvuri_text, nomePeriodico_eq)
    IN  IF m # None THEN m ELSE RevistaNaoEncontrada

\* The dictionary appended to all_articles for one article block.
article_record(nome_arquivo, categoria, cvuri_text) ==
    [Nome |-> nome_arquivo,
     Categoria |-> categoria,
     ISSN |-> extract_issn(cvuri_text),
     DOI |-> extract_doi(cvuri_text),
     Titulo |-> extract_titulo(cvuri_text),
     Revista |-> extract_revista(cvuri_text)]

----------------------------------------------------------------------------
(* load_qualis_data. *)

NaN == "NaN"

\* pd.DataFrame(): no columns, no rows.
EmptyDataFrame == [columns |-> FALSE, rows |-> <<>>]

\* DataFrame.empty
empty(df) == ~df.columns \/ df.rows = <<>>

\* A load that leaves the blank tiers blank.
fillna_qualis_skipped(rows) == rows

\* qualis_final["qualis"].fillna("C")
fillna_qualis(rows) ==
    [i \in DOMAIN rows |->
        [rows[i] EXCEPT !.qualis = IF @ = NaN THEN "C" ELSE @]]

RECURSIVE select_rows(_, _, _)
\* The rows of `rows` whose index is in `keep`, from index i on, in row order.
select_rows(rows, keep, i) ==
    IF i > Len(rows) THEN <<>>
    ELSE (IF i \in keep THEN <<rows[i]>> ELSE <<>>)
         \o select_rows(rows, keep, i + 1)

\* A load that keeps every row of a repeated identifier.
drop_duplicates_skipped(rows) == rows

\* A load that keeps the last row of a repeated identifier (keep="last").
drop_duplicates_keep_last(rows) ==
    select_rows(rows,
                {i \in DOMAIN rows :
                    \A j \in (i + 1)..Len(rows) : rows[j].ISSN # rows[i].ISSN},
                1)

\* drop_duplicates(subset="ISSN"), keep="first" by default: a row stays when
\* no earlier row has its ISSN (two missing ISSNs count as equal).
drop_duplicates(rows) ==
    select_rows(rows,
                {i \in DOMAIN rows :
                    \A j \in 1..(i - 1) : rows[j].ISSN # rows[i].ISSN},
                1)

read_excel_ok(file) == file.kind = "ok"

\* The returned frame: any exception of the body yields pd.DataFrame().
load_qualis_data(file) ==
    IF read_excel_ok(file)
    THEN [columns |-> TRUE, rows |-> drop_duplicates(fillna_qualis(file.rows))]
    ELSE EmptyDataFrame

----------------------------------------------------------------------------
(* calculate_points. *)

Tiers == {"A1", "A2", "A3", "A4", "B1", "B2", "B3", "B4", "C"}

\* A score table with the values of B2 and B3 exchanged.
pontos_map_swapped ==
    [t \in Tiers |->
        CASE t = "A1" -> 100 [] t = "A2" -> 80 [] t = "A3" -> 60
          [] t = "A4" -> 40  [] t = "B1" -> 30 [] t = "B2" -> 10
          [] t = "B3" -> 20  [] t = "B4" -> 5  [] t = "C" -> 0]

pontos_map ==
    [t \in Tiers |->
        CASE t = "A1" -> 100 [] t = "A2" -> 80 [] t = "A3" -> 60
          [] t = "A4" -> 40  [] t = "B1" -> 30 [] t = "B2" -> 20
          [] t = "B3" -> 10  [] t = "B4" -> 5  [] t = "C" -> 0]

\* The right rows joined to one left row: pandas joins equal keys, and a
\* missing key on the left to a missing key on the right.
merge_matches(issn, right) ==
    select_rows(right, {j \in DOMAIN right : right[j].ISSN = issn}, 1)

RECURSIVE merge_left(_, _, _)
\* _df.merge(qualis_df, on="ISSN", how="left"): left order kept, one output row
\* per matching right row, and one row with a missing qualis when none matches.
merge_left(left, right, i) ==
    IF i > Len(left) THEN <<>>
    ELSE LET ms == merge_matches(left[i].ISSN, right)
             out == IF ms = <<>>
                    THEN <<[row |-> left[i], qualis |-> NaN]>>
                    ELSE [k \in DOMAIN ms |->
                            [row |-> left[i], qualis |-> ms[k].qualis]]
         IN  out \o merge_left(left, right, i + 1)

\* A scoring that fills the missing tiers and keeps the "-" ones.
fill_qualis_fillna_only(q) == IF q = NaN THEN "C" ELSE q

\* .fillna("C").replace("-", "C")
fill_qualis(q) == IF q = NaN \/ q = "-" THEN "C" ELSE q

\* .map(pontos_map).fillna(0)
pontos(q) == IF q \in DOMAIN pontos_map THEN pontos_map[q] ELSE 0

scored_row(m) ==
    LET q == fill_qualis(m.qualis)
    IN  [Nome |-> m.row.Nome, Categoria |-> m.row.Categoria,
         ISSN |-> m.row.ISSN, DOI |-> m.row.DOI, Titulo |-> m.row.Titulo,
         Revista |-> m.row.Revista, qualis |-> q, pontos |-> pontos(q)]

calculate_points(df, qualis) ==
    LET df_merged == merge_left(df, qualis.rows, 1)
    IN  [i \in DOMAIN df_merged |-> scored_row(df_merged[i])]

----------------------------------------------------------------------------
(* The inputs: the reference table and the folders of curricula. *)

folders ==
    <<[folder_name |-> "permanentes", categoria |-> "Permanente"],
      [folder_name |-> "colaboradores", categoria |-> "Colaborador"]>>

FolderNames == {folders[k].folder_name : k \in DOMAIN folders}

SeqUpTo(S, n) == UNION {[1..k -> S] : k \in 0..n}

RECURSIVE Join(_)
\* "&".join(frags)
Join(frags) ==
    IF frags = <<>> THEN <<>>
    ELSE IF Len(frags) = 1 THEN frags[1]
    ELSE frags[1] \o <<"&">> \o Join(Tail(frags))

ISSN_A == <<"A","A","A","A","-","1","1","1","1">>
ISSN_B == <<"B","B","B","B","-","2","2","2","2">>

frag_issnA == issn_eq \o <<"A","A","A","A","1","1","1","1">>
frag_issnB == issn_eq \o <<"B","B","B","B","2","2","2","2">>
frag_issn == issn_eq \o <<"A","B","C","D","1","2","3","4">>
frag_issn_short == issn_eq \o <<"A","B","C">>
frag_eissn == <<"e">> \o issn_eq \o <<"W","X","Y","Z","5","6","7","8">>
frag_doi == doi_eq \o <<"1","0",".","1","/","x">>
frag_titulo == titulo_eq \o <<"F","o","o">>
frag_titulo_issn == titulo_eq \o issn_eq \o <<"W","X","Y","Z","5","6","7","8">>
frag_titulo_doi == titulo_eq \o doi_eq \o <<"7">>
frag_revista == nomePeriodico_eq \o <<"B","a","r">>

\* An article block: whether it holds a span.citacoes / span.citado, and the
\* value of that element's cvuri attribute.
Block(text) == [marker |-> TRUE, cvuri |-> text]
NoMarker == [marker |-> FALSE, cvuri |-> <<>>]

File(name, blocks) == [name |-> name, html |-> TRUE, articles |-> blocks]
NotHtml(name) == [name |-> name, html |-> FALSE, articles |-> <<>>]
Dir(files) == [isdir |-> TRUE, files |-> files]
NoDir == [isdir |-> FALSE, files |-> <<>>]

FileNames == <<"ana", "bia", "caio", "davi">>

BadKinds == {"missing", "unreadable", "no_qualis_column", "no_ISSN_column"}
BadTables == {[kind |-> k, rows |-> <<>>] : k \in BadKinds}

TableIssns == {ISSN_A, ISSN_B, None}
TableTiers == {"A1", "B2", "C", "-", "NP", NaN}
TableRows == [ISSN : TableIssns, qualis : TableTiers]
Tables == {[kind |-> "ok", rows |-> r] : r \in SeqUpTo(TableRows, MaxRows)}

GoodTable ==
    [kind |-> "ok",
     rows |-> <<[ISSN |-> ISSN_A, qualis |-> "A1"],
                [ISSN |-> ISSN_B, qualis |-> "-"]>>]
FewTables == {GoodTable, [kind |-> "unreadable", rows |-> <<>>]}

Colaboradores ==
    Dir(<<NotHtml("notas"),
          File("eva", <<NoMarker, Block(Join(<<frag_issnB, frag_doi>>))>>)>>)

\* The corpora of the scoring runs: repeated, unknown and absent identifiers.
Corpora ==
    {[permanentes |-> Dir(<<NotHtml("notas"),
                            File("ana", <<Block(frag_issnA), NoMarker,
                                          Block(frag_issnB), Block(frag_issnA),
                                          Block(frag_titulo)>>)>>),
      colaboradores |-> NoDir],
     [permanentes |-> NoDir,
      colaboradores |-> Dir(<<File("eva", <<Block(frag_titulo),
                                            Block(frag_issnA)>>)>>)]}

\* The corpora of the scanning runs: up to n files of up to m blocks in the
\* first folder, which may also be missing.
ScanBlocks == {Block(frag_issnA), Block(frag_titulo)}
ScanFiles(n, m) ==
    {[k \in 1..n |-> File(FileNames[k], bs[k])] :
        bs \in [1..n -> SeqUpTo(ScanBlocks, m)]}
ScanCorpora(n, m) ==
    {[permanentes |-> p, colaboradores |-> Colaboradores] :
        p \in {NoDir} \cup {Dir(fl) : fl \in UNION {ScanFiles(k, m) : k \in 0..n}}}

\* The corpora of the extraction runs: one block, its cvuri text made of up to
\* MaxFrags key=value fragments joined by "&".
Frags ==
    {frag_issn, frag_issn_short, frag_eissn, frag_doi, frag_titulo,
     frag_titulo_issn, frag_titulo_doi, frag_revista}
CvuriTexts == {Join(fr) : fr \in SeqUpTo(Frags, MaxFrags)}
ExtractCorpora ==
    {[permanentes |-> Dir(<<File("ana", <<Block(t)>>)>>),
      colaboradores |-> NoDir] : t \in CvuriTexts}

----------------------------------------------------------------------------
(* The state machine. *)

Start(tables, corpora) ==
    /\ qualis_file \in tables
    /\ fs \in corpora
    /\ pc = "start"
    /\ qualis_df = EmptyDataFrame
    /\ errors = {}
    /\ folder_i = 1
    /\ html_files = <<>>
    /\ file_i = 1
    /\ articles = <<>>
    /\ article_i = 1
    /\ all_articles = <<>>
    /\ articles_df = <<>>
    /\ banco_final = <<>>
    /\ cvuri_log = <<>>
    /\ failed_files = {}

Init == Start(BadTables \cup Tables, Corpora)
InitScan == Start(FewTables, ScanCorpora(MaxFiles, MaxArticles))
InitExtract == Start(FewTables, ExtractCorpora)

scan_vars == <<folder_i, html_files, file_i, articles, article_i, all_articles,
               articles_df, cvuri_log, failed_files>>

\* The driver: data/qualis_final.xlsx must exist.
CheckQualisPath ==
    /\ pc = "start"
    /\ IF qualis_file.kind = "missing"
       THEN errors' = errors \cup {"qualis_not_found"} /\ pc' = "stopped"
       ELSE errors' = errors /\ pc' = "load"
    /\ UNCHANGED <<qualis_file, fs, qualis_df, banco_final>>
    /\ UNCHANGED scan_vars

LoadQualisData ==
    /\ pc = "load"
    /\ qualis_df' = load_qualis_data(qualis_file)
    /\ errors' = IF read_excel_ok(qualis_file) THEN errors
                 ELSE errors \cup {"qualis_read_error"}
    /\ pc' = "scan"
    /\ UNCHANGED <<qualis_file, fs, banco_final>>
    /\ UNCHANGED scan_vars

current_folder == fs[folders[folder_i].folder_name]
current_file == html_files[file_i]
file_id == <<folders[folder_i].categoria, current_file.name>>

\* for folder_name, categoria in folders.items(): not a directory: continue
SkipFolder ==
    /\ pc = "scan"
    /\ folder_i <= Len(folders)
    /\ ~current_folder.isdir
    /\ folder_i' = folder_i + 1
    /\ UNCHANGED <<qualis_file, fs, pc, qualis_df, errors, html_files, file_i,
                   articles, article_i, all_articles, articles_df, banco_final,
                   cvuri_log, failed_files>>

\* html_files: the entries of the folder that end in ".html"
ListFolder ==
    /\ pc = "scan"
    /\ folder_i <= Len(folders)
    /\ current_folder.isdir
    /\ html_files' = select_rows(current_folder.files,
                        {k \in DOMAIN current_folder.files :
                            current_folder.files[k].html}, 1)
    /\ file_i' = 1
    /\ pc' = "file"
    /\ UNCHANGED <<qualis_file, fs, qualis_df, errors, folder_i, articles,
                   article_i, all_articles, articles_df, banco_final,
                   cvuri_log, failed_files>>

\* The file is read and parsed, and its article blocks are selected.
ParseFile ==
    /\ pc = "file"
    /\ file_i <= Len(html_files)
    /\ articles' = current_file.articles
    /\ article_i' = 1
    /\ pc' = "article"
    /\ UNCHANGED <<qualis_file, fs, qualis_df, errors, folder_i, html_files,
                   file_i, all_articles, articles_df, banco_final, cvuri_log,
                   failed_files>>

\* open, read or BeautifulSoup raises: except Exception: pass, next file.
ParseFileFails ==
    /\ pc = "file"
    /\ file_i <= Len(html_files)
    /\ failed_files' = failed_files \cup {file_id}
    /\ file_i' = file_i + 1
    /\ UNCHANGED <<qualis_file, fs, pc, qualis_df, errors, folder_i, html_files,
                   articles, article_i, all_articles, articles_df, banco_final,
                   cvuri_log>>

FolderDone ==
    /\ pc = "file"
    /\ file_i > Len(html_files)
    /\ folder_i' = folder_i + 1
    /\ pc' = "scan"
    /\ UNCHANGED <<qualis_file, fs, qualis_df, errors, html_files, file_i,
                   articles, article_i, all_articles, articles_df, banco_final,
                   cvuri_log, failed_files>>

\* One turn of "for article in articles": a block without the marker element
\* is skipped, any other appends its record.
ProcessArticle ==
    /\ pc = "article"
    /\ article_i <= Len(articles)
    /\ LET article == articles[article_i]
       IN  IF ~article.marker
           THEN UNCHANGED <<all_articles, cvuri_log>>
           ELSE /\ all_articles' = Append(all_articles,
                      article_record(current_file.name,
                                     folders[folder_i].categoria, article.cvuri))
                /\ cvuri_log' = Append(cvuri_log, article.cvuri)
    /\ article_i' = article_i + 1
    /\ UNCHANGED <<qualis_file, fs, pc, qualis_df, errors, folder_i, html_files,
                   file_i, articles, articles_df, banco_final, failed_files>>

\* A statement of the loop body raises: the except clause of the file is
\* reached, and the records already appended stay in all_articles.
ArticleFails ==
    /\ pc = "article"
    /\ article_i <= Len(articles)
    /\ failed_files' = failed_files \cup {file_id}
    /\ file_i' = file_i + 1
    /\ pc' = "file"
    /\ UNCHANGED <<qualis_file, fs, qualis_df, errors, folder_i, html_files,
                   articles, article_i, all_articles, articles_df, banco_final,
                   cvuri_log>>

FileDone ==
    /\ pc = "article"
    /\ article_i > Len(articles)
    /\ file_i' = file_i + 1
    /\ pc' = "file"
    /\ UNCHANGED <<qualis_file, fs, qualis_df, errors, folder_i, html_files,
                   articles, article_i, all_articles, articles_df, banco_final,
                   cvuri_log, failed_files>>

\* df = pd.DataFrame(all_articles); return df
FinishScan ==
    /\ pc = "scan"
    /\ folder_i > Len(folders)
    /\ articles_df' = all_articles
    /\ pc' = "check"
    /\ UNCHANGED <<qualis_file, fs, qualis_df, errors, folder_i, html_files,
                   file_i, articles, article_i, all_articles, banco_final,
                   cvuri_log, failed_files>>

\* A check that looks at the records only.
load_failed_articles_only(q, a) == a = <<>>

\* if qualis_df.empty or articles_df.empty
load_failed(q, a) == empty(q) \/ a = <<>>

CheckLoaded ==
    /\ pc = "check"
    /\ IF load_failed(qualis_df, articles_df)
       THEN errors' = errors \cup {"load_failure"} /\ pc' = "stopped"
       ELSE errors' = errors /\ pc' = "score"
    /\ UNCHANGED <<qualis_file, fs, qualis_df, banco_final>>
    /\ UNCHANGED scan_vars

\* banco_final = calculate_points(articles_df, qualis_df); a frame without an
\* ISSN column makes the merge raise.
CalculatePoints ==
    /\ pc = "score"
    /\ IF qualis_df.columns
       THEN banco_final' = calculate_points(articles_df, qualis_df) /\ pc' = "done"
       ELSE banco_final' = banco_final /\ pc' = "raised"
    /\ UNCHANGED <<qualis_file, fs, qualis_df, errors>>
    /\ UNCHANGED scan_vars

Next ==
    \/ CheckQualisPath
    \/ LoadQualisData
    \/ SkipFolder
    \/ ListFolder
    \/ ParseFile
    \/ ParseFileFails
    \/ FolderDone
    \/ ProcessArticle
    \/ ArticleFails
    \/ FileDone
    \/ FinishScan
    \/ CheckLoaded
    \/ CalculatePoints

Spec == Init /\ [][Next]_vars
SpecScan == InitScan /\ [][Next]_vars
SpecExtract == InitExtract /\ [][Next]_vars

----------------------------------------------------------------------------
(* The claims. *)

Loaded == pc \notin {"start", "load"} /\ "qualis_not_found" \notin errors
Scored == pc = "done"
ScanOver == pc \in {"check", "score", "done", "raised"} \/ "load_failure" \in errors

\* The raw columns of a scored record.
raw_of(r) ==
    [Nome |-> r.Nome, Categoria |-> r.Categoria, ISSN |-> r.ISSN, DOI |-> r.DOI,
     Titulo |-> r.Titulo, Revista |-> r.Revista]

\* The first row of the reference table that holds this identifier.
first_row(issn) ==
    qualis_file.rows[SetMin({k \in DOMAIN qualis_file.rows :
                                qualis_file.rows[k].ISSN = issn})]

\* C1 as stated: after calculate_points every scored record's tier is one of
\* the nine fixed tiers (so neither blank nor "-"), whatever tier strings the
\* reference table holds.
C1_TierAlwaysFixed ==
    Scored => \A i \in DOMAIN banco_final : banco_final[i].qualis \in Tiers

\* C1 as amended: after calculate_points every scored record's tier is neither
\* blank nor "-"; it is one of the nine fixed tiers or a tier string that the
\* reference table holds for the record's journal identifier.
C1_TierNeverBlank ==
    Scored =>
        \A i \in DOMAIN banco_final :
            LET r == banco_final[i]
            IN  /\ r.qualis \notin {NaN, "-"}
                /\ \/ r.qualis \in Tiers
                   \/ \E k \in DOMAIN qualis_file.rows :
                         /\ qualis_file.rows[k].ISSN = r.ISSN
                         /\ qualis_file.rows[k].qualis = r.qualis

\* A run that scored a record against a "-" entry (tier C) and another
\* against an entry whose tier is outside the nine.
C1_Witness ==
    /\ Scored
    /\ \E i, j \in DOMAIN banco_final :
          /\ banco_final[i].qualis \notin Tiers
          /\ banco_final[j].qualis = "C"
          /\ \E k \in DOMAIN qualis_df.rows :
                /\ qualis_df.rows[k].ISSN = banco_final[j].ISSN
                /\ qualis_df.rows[k].qualis = "-"

\* C2: calculate_points returns exactly one scored record per raw record, in
\* the order of the input: no row is dropped or duplicated.
C2_LeftJoin ==
    Scored =>
        /\ Len(banco_final) = Len(articles_df)
        /\ \A i \in DOMAIN banco_final : raw_of(banco_final[i]) = articles_df[i]

\* A scored run whose raw records repeat an identifier and whose reference
\* table held a duplicate row.
C2_Witness ==
    /\ Scored
    /\ \E i, j \in DOMAIN articles_df :
          i # j /\ articles_df[i].ISSN = articles_df[j].ISSN
    /\ Len(qualis_df.rows) < Len(qualis_file.rows)

\* The catalog entries whose journal identifier is that of the record; a
\* record without an identifier has none.
entries_of(r) ==
    {k \in DOMAIN qualis_df.rows :
        r.ISSN # None /\ qualis_df.rows[k].ISSN = r.ISSN}

\* C3: a scored record whose journal identifier matches a catalog entry with a
\* tier other than blank and "-" has that entry's tier; a record with no
\* matching entry, or whose entry's tier is blank or "-", has tier C, score 0.
C3_FallbackRule ==
    Scored =>
        \A i \in DOMAIN banco_final :
            LET r == banco_final[i]
                named == {k \in entries_of(r) :
                             qualis_df.rows[k].qualis \notin {NaN, "-"}}
            IN  IF named # {}
                THEN \A k \in named : r.qualis = qualis_df.rows[k].qualis
                ELSE r.qualis = "C" /\ r.pontos = 0

\* The fixed table of tier scores.
FixedScore(t) ==
    CASE t = "A1" -> 100 [] t = "A2" -> 80 [] t = "A3" -> 60 [] t = "A4" -> 40
      [] t = "B1" -> 30  [] t = "B2" -> 20 [] t = "B3" -> 10 [] t = "B4" -> 5
      [] OTHER -> 0

\* C4: every scored record's score is the fixed table applied to its tier (0
\* for any tier outside the table), so it is one of 100, 80, 60, 40, 30, 20,
\* 10, 5, 0.
C4_ScoreOfTier ==
    Scored =>
        \A i \in DOMAIN banco_final :
            /\ banco_final[i].pontos = FixedScore(banco_final[i].qualis)
            /\ banco_final[i].pontos \in {100, 80, 60, 40, 30, 20, 10, 5, 0}

\* A scored run with a record of a tier of the table, one of tier C and one
\* of a tier outside the table.
C4_Witness ==
    /\ Scored
    /\ \E i \in DOMAIN banco_final : banco_final[i].pontos = 20
    /\ \E i \in DOMAIN banco_final : banco_final[i].qualis = "C"
    /\ \E i \in DOMAIN banco_final :
          banco_final[i].qualis = "NP" /\ banco_final[i].pontos = 0

\* C5: the catalog of load_qualis_data holds at most one entry per journal
\* identifier, the identifiers in the order of their first rows, and each
\* entry carries the tier of the first row of its identifier (C when that
\* tier was blank).
C5_FirstSeenWins ==
    Loaded =>
        LET cat == qualis_df.rows
        IN  /\ \A i, j \in DOMAIN cat : i # j => cat[i].ISSN # cat[j].ISSN
            /\ qualis_file.kind = "ok" =>
                  /\ {cat[i].ISSN : i \in DOMAIN cat}
                        = {qualis_file.rows[k].ISSN : k \in DOMAIN qualis_file.rows}
                  /\ \A i \in DOMAIN cat :
                        LET t == first_row(cat[i].ISSN).qualis
                        IN  cat[i].qualis = IF t = NaN THEN "C" ELSE t

\* A loaded table in which two rows share an identifier with different tiers.
C5_Witness ==
    /\ Loaded
    /\ \E i, j \in DOMAIN qualis_file.rows :
          /\ i < j
          /\ qualis_file.rows[i].ISSN = qualis_file.rows[j].ISSN
          /\ qualis_file.rows[i].ISSN # None
          /\ qualis_file.rows[i].qualis # qualis_file.rows[j].qualis
    /\ Len(qualis_df.rows) = 1

----------------------------------------------------------------------------
(* The claims about the scan. *)

RECURSIVE block_records(_, _, _, _)
\* The records of the blocks of one file, from block i on.
block_records(name, categoria, blocks, i) ==
    IF i > Len(blocks) THEN <<>>
    ELSE (IF blocks[i].marker
          THEN <<article_record(name, categoria, blocks[i].cvuri)>>
          ELSE <<>>)
         \o block_records(name, categoria, blocks, i + 1)

RECURSIVE file_records(_, _, _)
\* The records of the .html files of one folder that did not fail, from file
\* i on, in the order of the folder's listing.
file_records(categoria, files, i) ==
    IF i > Len(files) THEN <<>>
    ELSE (IF files[i].html /\ <<categoria, files[i].name>> \notin failed_files
          THEN block_records(files[i].name, categoria, files[i].articles, 1)
          ELSE <<>>)
         \o file_records(categoria, files, i + 1)

RECURSIVE folder_records(_)
\* The records of the documents that did not fail, in discovery order.
folder_records(k) ==
    IF k > Len(folders) THEN <<>>
    ELSE (IF fs[folders[k].folder_name].isdir
          THEN file_records(folders[k].categoria,
                            fs[folders[k].folder_name].files, 1)
          ELSE <<>>)
         \o folder_records(k + 1)

\* C7: when the scan is over, a document whose reading or parsing failed at
\* any point has no record in the output, and the output is exactly the
\* records of all the other documents, in discovery order.
C7_FailedDocumentSkipped ==
    ScanOver =>
        /\ \A i \in DOMAIN articles_df :
              <<articles_df[i].Categoria, articles_df[i].Nome>> \notin failed_files
        /\ articles_df = folder_records(1)

\* C8: a malformed or unreadable reference table makes load_qualis_data show
\* an error and return an empty catalog, and calculate_points is never
\* reached with an empty catalog: such a run stops with nothing scored.
C8_NoScoringWithoutCatalog ==
    /\ (Loaded /\ qualis_file.kind # "ok") =>
          /\ qualis_df = EmptyDataFrame
          /\ "qualis_read_error" \in errors
    /\ pc \in {"score", "done", "raised"} => ~empty(qualis_df)
    /\ pc # "raised"
    /\ (Loaded /\ empty(qualis_df)) => banco_final = <<>>

\* A run whose table could not be read and whose scan found records: it
\* stopped at the check that follows the scan.
C8_Witness ==
    /\ pc = "stopped"
    /\ qualis_file.kind = "unreadable"
    /\ qualis_df = EmptyDataFrame
    /\ articles_df # <<>>
    /\ "load_failure" \in errors

----------------------------------------------------------------------------
(* The claims about the extraction. *)

RECURSIVE Split(_)
\* text.split("&")
Split(text) ==
    LET stops == {j \in DOMAIN text : text[j] = "&"}
    IN  IF stops = {} THEN <<text>>
        ELSE <<SubSeq(text, 1, SetMin(stops) - 1)>>
             \o Split(SubSeq(text, SetMin(stops) + 1, Len(text)))

\* The fragments of a text: none for the empty text.
Fragments(text) ==
    IF text = <<>> THEN {}
    ELSE {Split(text)[k] : k \in DOMAIN Split(text)}

\* The key of a key=value fragment: what precedes its first "=".
KeyOf(frag) ==
    LET eqs == {j \in DOMAIN frag : frag[j] = "="}
    IN  IF eqs = {} THEN frag ELSE SubSeq(frag, 1, SetMin(eqs) - 1)

ValueOf(frag) ==
    LET eqs == {j \in DOMAIN frag : frag[j] = "="}
    IN  IF eqs = {} THEN <<>> ELSE SubSeq(frag, SetMin(eqs) + 1, Len(frag))

Keyed(text, key) == {f \in Fragments(text) : KeyOf(f) = key}

IsIdentifier(issn) ==
    /\ Len(issn) = 9
    /\ issn[5] = "-"
    /\ \A k \in {1, 2, 3, 4, 6, 7, 8, 9} : issn[k] \in Alnum

\* C9: a record extracted from a text that contains the fragment
\* issn=ABCD1234 has the journal identifier ABCD-1234; an extracted
\* identifier is 4 alphanumerics, a hyphen, 4 alphanumerics; and a text with
\* no fragment keyed issn, or whose issn values have fewer than 8 characters,
\* leaves the identifier absent.
C9_IssnOfFragment ==
    \A i \in DOMAIN all_articles :
        LET text == cvuri_log[i]
            issn == all_articles[i].ISSN
        IN  /\ frag_issn \in Fragments(text)
                  => issn = <<"A","B","C","D","-","1","2","3","4">>
            /\ issn # None => IsIdentifier(issn)
            /\ (\A f \in Keyed(text, <<"i","s","s","n">>) : Len(ValueOf(f)) < 8)
                  => issn = None

\* A text followed by one more fragment, doi=10.1/x.
WithDoi(text) == IF text = <<>> THEN frag_doi ELSE text \o <<"&">> \o frag_doi

\* C10: a record extracted from a text with no fragment keyed doi has the
\* external identifier "N/A", and its journal identifier, title and venue
\* are those extracted from the same text with a doi fragment added.
C10_NoDoiFragment ==
    \A i \in DOMAIN all_articles :
        LET text == cvuri_log[i]
            r == all_articles[i]
        IN  Keyed(text, <<"d","o","i">>) = {} =>
                /\ r.DOI = NA
                /\ r.ISSN = extract_issn(WithDoi(text))
                /\ r.Titulo = extract_titulo(WithDoi(text))
                /\ r.Revista = extract_revista(WithDoi(text))

----------------------------------------------------------------------------
(* The claim about records without a journal identifier. *)

\* C11: a scored record whose journal identifier is absent matches no catalog
\* entry, whatever rows the reference table holds (a row with a blank
\* identifier included): its tier is C and its score is 0.
C11_AbsentIdentifierUnmatched ==
    Scored =>
        \A i \in DOMAIN banco_final :
            banco_final[i].ISSN = None =>
                banco_final[i].qualis = "C" /\ banco_final[i].pontos = 0

====
